---- MODULE Spec2Model ----
(***************************************************************************)
(* Model of no-packsaran (src/src/main.rs): main, defeat_any_fit,          *)
(* defeat_best_fusion and gen_image.                                       *)
(*                                                                         *)
(* usize values are records [base, off] denoting                           *)
(*     (base * 2^(w-1) + off) mod 2^w        (w = width of usize)          *)
(* with off a small integer.  base = 0, off >= 0 is the number off;        *)
(* base = 0, off < 0 is a value just below 2^w (what a wrapping            *)
(* subtraction below zero yields); base = 1 is a value at or just above    *)
(* 2^(w-1), whose double does not fit in a usize.                          *)
(***************************************************************************)
EXTENDS Integers, Sequences, FiniteSets, TLC

\* ---- bounds of the model -------------------------------------------------
MaxPaletteSize == 258      \* palette sizes 0..MaxPaletteSize are tried
MaxTopOff == 5             \* and 2^(w-1) + 0..MaxTopOff
MaxGenP == 8               \* combinations are enumerated for P <= MaxGenP
MaxTileSize == 2           \* tile sizes 1..MaxTileSize
MaxTiles == 2              \* assembler inputs: up to MaxTiles proto-palettes
MaxLen == 2                \*   of up to MaxLen colours each
MaxColor == 1              \*   drawn from 0..MaxColor

\* ---- program constants ---------------------------------------------------
U8Max == 255               \* u8::try_from succeeds up to u8::MAX

VARIABLES
    strategy,          \* cli.strategy
    palette_size,      \* cli.palette_size.unwrap_or(4), a usize record
    tile_size,         \* cli.tile_size.unwrap_or(8)
    overflow_checks,   \* build profile: TRUE = debug (overflow checks and
                       \* debug assertions on), FALSE = release (wrapping)
    pc,                \* position in the program
    arg,               \* the palette_size parameter of the generator
    tile_colors,       \* the proto-palettes returned by the generator
    nb_colors,         \* the colour count returned by the generator
    img,               \* the frame of the image, [<<x, y>> -> colour index]
    img_dims,          \* <<width, height>> of the image
    exit_code,         \* "running", "success", "failure", "panic"
    reason             \* why the run ended

vars == <<strategy, palette_size, tile_size, overflow_checks, pc, arg,
          tile_colors, nb_colors, img, img_dims, exit_code, reason>>

\* ---- usize arithmetic ----------------------------------------------------
U(n) == [base |-> 0, off |-> n]
Top(n) == [base |-> 1, off |-> n]
IsSmall(u) == u.base = 0 /\ u.off >= 0

\* n & !2 on a small number: clear bit 1
ClearBit1(n) == IF (n \div 2) % 2 = 1 THEN n - 2 ELSE n

\* palette_size & !2 (bit 1 is not the top bit, so base is unchanged)
AndNot2(u) == [base |-> u.base, off |-> ClearBit1(u.off)]

IsEven(u) == u.off % 2 = 0

\* palette_size * 2: does the true product exceed usize::MAX, and the
\* wrapped product
MulTwoOverflows(u) == ~IsSmall(u)
MulTwoWrapped(u) == [base |-> 0, off |-> 2 * u.off]

\* palette_size + 2
AddTwo(u) == [base |-> u.base, off |-> u.off + 2]

\* palette_size - n on a small number: overflow, and the wrapped difference
SubOverflows(p, n) == p < n
SubWrapped(p, n) == U(p - n)

\* u8::try_from(u).is_ok()
FitsU8(u) == IsSmall(u) /\ u.off <= U8Max

\* `x as u8`
AsU8(n) == n % 256

\* ---- sequences -----------------------------------------------------------
Range(s) == {s[j] : j \in 1..Len(s)}
NoDup(s) == \A j, k \in 1..Len(s) : j # k => s[j] # s[k]
Map(s, F(_)) == [j \in 1..Len(s) |-> F(s[j])]

RECURSIVE Concat(_)
Concat(ss) == IF ss = <<>> THEN <<>> ELSE Head(ss) \o Concat(Tail(ss))

\* ---- the combination crate -----------------------------------------------
\* The `at`-element combinations of lo..len-1 in lexicographic order.
RECURSIVE CombFrom(_, _, _)
CombFrom(lo, len, at) ==
    IF at = 0 THEN << <<>> >>
    ELSE IF len - lo < at THEN <<>>
    ELSE Map(CombFrom(lo + 1, len, at - 1), LAMBDA c : <<lo>> \o c)
         \o CombFrom(lo + 1, len, at)

\* The calls whose result the crate documents: 1 <= at <= len (len a number,
\* at a usize record).  The model does not follow a run into any other call.
InDomain(len, at) == IsSmall(at) /\ 1 <= at.off /\ at.off <= len

\* combination::combine::index(len, at)
index(len, at) == CombFrom(0, len, at)

\* combination::combine::from_vec_at(&vec, at)
from_vec_at(vec, at) == Map(index(Len(vec), at), LAMBDA c : Map(c, LAMBDA j : vec[j + 1]))

\* ---- defeat_any_fit ------------------------------------------------------
\* EvenOdd without the doubling of the index
EvenOddNoDouble(idx) == <<AsU8(idx), AsU8(AsU8(idx) + 1)>>

\* |index| (even, even + 1)
EvenOdd(idx) == <<AsU8(idx * 2), AsU8(AsU8(idx * 2) + 1)>>

\* |combination| [evens, odds]
EvensOdds(combination) ==
    << Map(combination, LAMBDA idx : EvenOdd(idx)[1]),
       Map(combination, LAMBDA idx : EvenOdd(idx)[2]) >>

AnyFitPalettes(P) == Concat(Map(index(P, P \div 2), EvensOdds))

\* ---- defeat_best_fusion --------------------------------------------------
LockA(nb) == nb - 2
\* the second lock colour taken equal to the first
LockBSameAsA(nb) == nb - 2

LockB(nb) == nb - 1

u8ify(slice) == Map(slice, AsU8)

Intersection(first, second) ==
    Map(SelectSeq(first, LAMBDA t : t \in Range(second)), AsU8)

lock(intersection, lock_color) == Append(intersection, lock_color)

Rest(T0, P, i) == from_vec_at(Intersection(T0[i * 2 + 1], T0[i * 2 + 2]), P - 3)

\* the proto-palettes pushed by iteration i of the loop
Block(T0, P, nb, i) ==
    LET first == T0[i * 2 + 1]
        second == T0[i * 2 + 2]
        intersection == Intersection(first, second)
    IN  << u8ify(first), lock(intersection, LockA(nb)),
           u8ify(second), lock(intersection, LockB(nb)) >>
        \o Map(Rest(T0, P, i), LAMBDA subpal : subpal \o <<LockA(nb), LockB(nb)>>)

BestFusionPalettes(P, nb) ==
    LET T0 == index(P, P - 1)
    IN  Concat([k \in 1..(P \div 2) |-> Block(T0, P, nb, k - 1)])

\* the debug_assert_eq!s of defeat_best_fusion
DebugAssertsHold(P, nb) ==
    LET T0 == index(P, P - 1)
    IN  /\ Len(T0) = P
        /\ \A i \in 0..(P \div 2 - 1) :
              /\ Len(Intersection(T0[i * 2 + 1], T0[i * 2 + 2])) = P - 2
              /\ Len(Rest(T0, P, i)) = P - 2
        /\ Len(BestFusionPalettes(P, nb)) = P * 2 + (P \div 2) * (P - 2)

\* ---- gen_image -----------------------------------------------------------
\* dest_y without the tile stride
DestYNoStride(i, y, S) == i + y

DestY(i, y, S) == i * S + y

\* tile[(x + y * tile_size) % tile.len()]
TileIndex(tile, x, y, S) == tile[((x + y * S) % Len(tile)) + 1]

\* The frame after the loops: zeroed, then every (x, dest_y) written.
FillFrame(S, tiles) ==
    [p \in (0..(S - 1)) \X (0..(S * Len(tiles) - 1)) |->
        LET W == {w \in (0..(Len(tiles) - 1)) \X (0..(S - 1)) :
                      DestY(w[1], w[2], S) = p[2]}
        IN  IF W = {} THEN 0
            ELSE LET w == CHOOSE w \in W : TRUE
                 IN  TileIndex(tiles[w[1] + 1], p[1], w[2], S)]

\* ---- actions -------------------------------------------------------------
Panic(why) ==
    /\ pc' = "exited"
    /\ exit_code' = "panic"
    /\ reason' = why

\* main, lines 23-32: dispatch on the strategy name
Main ==
    /\ pc = "main"
    /\ IF strategy \in {"any_fit", "best_fusion"}
       THEN /\ arg' = AndNot2(palette_size)
            /\ pc' = IF strategy = "any_fit" THEN "defeat_any_fit"
                     ELSE "defeat_best_fusion"
            /\ UNCHANGED <<exit_code, reason>>
       ELSE /\ pc' = "exited"
            /\ exit_code' = "failure"
            /\ reason' = "unknown_strategy"
            /\ UNCHANGED arg
    /\ UNCHANGED <<strategy, palette_size, tile_size, overflow_checks,
                   tile_colors, nb_colors, img, img_dims>>

\* defeat_any_fit, lines 48-55: the assertion and the colour count
DefeatAnyFitCheck ==
    /\ pc = "defeat_any_fit"
    /\ IF ~IsEven(arg) THEN Panic("not_even") /\ UNCHANGED nb_colors
       ELSE IF MulTwoOverflows(arg) /\ overflow_checks
            THEN Panic("overflow") /\ UNCHANGED nb_colors
       ELSE IF ~FitsU8(MulTwoWrapped(arg))
            THEN Panic("colors") /\ UNCHANGED nb_colors
       ELSE /\ nb_colors' = MulTwoWrapped(arg).off
            /\ pc' = "any_fit_combine"
            /\ UNCHANGED <<exit_code, reason>>
    /\ UNCHANGED <<strategy, palette_size, tile_size, overflow_checks, arg,
                   tile_colors, img, img_dims>>

\* defeat_any_fit, lines 57-72: enumerate the combinations and return
DefeatAnyFitCombine ==
    /\ pc = "any_fit_combine"
    /\ IsSmall(arg)
    /\ arg.off <= MaxGenP
    /\ InDomain(arg.off, U(arg.off \div 2))
    /\ tile_colors' = AnyFitPalettes(arg.off)
    /\ pc' = "gen_image"
    /\ UNCHANGED <<strategy, palette_size, tile_size, overflow_checks, arg,
                   nb_colors, img, img_dims, exit_code, reason>>

\* defeat_best_fusion, lines 85-91: the assertion and the colour count
DefeatBestFusionCheck ==
    /\ pc = "defeat_best_fusion"
    /\ IF ~IsEven(arg) THEN Panic("not_even") /\ UNCHANGED nb_colors
       ELSE IF ~FitsU8(AddTwo(arg))
            THEN Panic("colors") /\ UNCHANGED nb_colors
       ELSE /\ nb_colors' = AddTwo(arg).off
            /\ pc' = "best_fusion_combine"
            /\ UNCHANGED <<exit_code, reason>>
    /\ UNCHANGED <<strategy, palette_size, tile_size, overflow_checks, arg,
                   tile_colors, img, img_dims>>

\* defeat_best_fusion, lines 93-141: build the proto-palettes and return.
\* palette_size - 1 (line 93) and palette_size - 3 (line 126) panic in a
\* build with overflow checks; without them the difference wraps and the
\* crate is called outside its documented domain.
DefeatBestFusionCombine ==
    /\ pc = "best_fusion_combine"
    /\ arg.off <= MaxGenP
    /\ LET P == arg.off
           sub1 == SubOverflows(P, 1)
           sub3 == P \div 2 > 0 /\ SubOverflows(P, 3)
       IN  IF (sub1 \/ sub3) /\ overflow_checks
           THEN Panic("overflow") /\ UNCHANGED tile_colors
           ELSE /\ InDomain(P, SubWrapped(P, 1))
                /\ InDomain(P - 2, SubWrapped(P, 3))
                /\ IF overflow_checks /\ ~DebugAssertsHold(P, nb_colors)
                   THEN Panic("debug_assert") /\ UNCHANGED tile_colors
                   ELSE /\ tile_colors' = BestFusionPalettes(P, nb_colors)
                        /\ pc' = "gen_image"
                        /\ UNCHANGED <<exit_code, reason>>
    /\ UNCHANGED <<strategy, palette_size, tile_size, overflow_checks, arg,
                   nb_colors, img, img_dims>>

\* gen_image, lines 145-183, for an image of positive width and height
GenImage ==
    /\ pc = "gen_image"
    /\ tile_size >= 1
    /\ Len(tile_colors) >= 1
    /\ IF \E i \in 1..Len(tile_colors) : Len(tile_colors[i]) = 0
       THEN /\ Panic("rem_by_zero")
            /\ UNCHANGED <<img, img_dims>>
       ELSE /\ img_dims' = <<tile_size, tile_size * Len(tile_colors)>>
            /\ img' = FillFrame(tile_size, tile_colors)
            /\ \E stored \in BOOLEAN :
                 IF stored
                 THEN /\ pc' = "main_return"
                      /\ UNCHANGED <<exit_code, reason>>
                 ELSE /\ pc' = "exited"
                      /\ exit_code' = "failure"
                      /\ reason' = "store_failed"
    /\ UNCHANGED <<strategy, palette_size, tile_size, overflow_checks, arg,
                   tile_colors, nb_colors>>

\* main, line 36
MainReturn ==
    /\ pc = "main_return"
    /\ pc' = "exited"
    /\ exit_code' = "success"
    /\ reason' = "done"
    /\ UNCHANGED <<strategy, palette_size, tile_size, overflow_checks, arg,
                   tile_colors, nb_colors, img, img_dims>>

\* ---- the program, from main ----------------------------------------------
PaletteSizes ==
    {U(n) : n \in 0..MaxPaletteSize} \cup {Top(n) : n \in 0..MaxTopOff}

Init ==
    /\ strategy \in {"any_fit", "best_fusion", "worst_fit"}
    /\ palette_size \in PaletteSizes
    /\ tile_size \in 1..MaxTileSize
    /\ overflow_checks \in BOOLEAN
    /\ pc = "main"
    /\ arg = U(0)
    /\ tile_colors = <<>>
    /\ nb_colors = 0
    /\ img = <<>>
    /\ img_dims = <<0, 0>>
    /\ exit_code = "running"
    /\ reason = "none"

Next ==
    \/ Main
    \/ DefeatAnyFitCheck
    \/ DefeatAnyFitCombine
    \/ DefeatBestFusionCheck
    \/ DefeatBestFusionCombine
    \/ GenImage
    \/ MainReturn

Spec == Init /\ [][Next]_vars

\* ---- the generators, called with any palette_size ------------------------
InitGen ==
    /\ strategy \in {"any_fit", "best_fusion"}
    /\ pc = (IF strategy = "any_fit" THEN "defeat_any_fit"
             ELSE "defeat_best_fusion")
    /\ arg \in {U(n) : n \in 0..MaxPaletteSize}
    /\ palette_size = arg
    /\ tile_size = 1
    /\ overflow_checks \in BOOLEAN
    /\ tile_colors = <<>>
    /\ nb_colors = 0
    /\ img = <<>>
    /\ img_dims = <<0, 0>>
    /\ exit_code = "running"
    /\ reason = "none"

NextGen ==
    \/ DefeatAnyFitCheck
    \/ DefeatAnyFitCombine
    \/ DefeatBestFusionCheck
    \/ DefeatBestFusionCombine

SpecGen == InitGen /\ [][NextGen]_vars

\* ---- gen_image, called with any proto-palettes ---------------------------
RECURSIVE SeqsUpTo(_, _)
SeqsUpTo(S, n) ==
    IF n = 0 THEN {<<>>}
    ELSE SeqsUpTo(S, n - 1) \cup {Append(s, e) : s \in SeqsUpTo(S, n - 1), e \in S}

InitAsm ==
    /\ strategy = "any_fit"
    /\ palette_size = U(0)
    /\ arg = U(0)
    /\ overflow_checks \in BOOLEAN
    /\ tile_size \in 1..MaxTileSize
    /\ tile_colors \in SeqsUpTo(SeqsUpTo(0..MaxColor, MaxLen), MaxTiles)
    /\ nb_colors = MaxColor + 1
    /\ pc = "gen_image"
    /\ img = <<>>
    /\ img_dims = <<0, 0>>
    /\ exit_code = "running"
    /\ reason = "none"

NextAsm == GenImage \/ MainReturn

SpecAsm == InitAsm /\ [][NextAsm]_vars

\* ==== properties ==========================================================
RECURSIVE Binomial(_, _)
Binomial(n, k) ==
    IF k = 0 THEN 1
    ELSE IF n = 0 THEN 0
    ELSE Binomial(n - 1, k - 1) + Binomial(n - 1, k)

\* the generator has returned to main
Returned == pc = "gen_image"
\* the generator has returned or the run has ended
GenFinished == pc \in {"gen_image", "exited"}
\* gen_image has filled the frame
Filled == img_dims # <<0, 0>>

\* the colours of band i of the image
BandColors(i) ==
    {img[<<x, y>>] : x \in 0..(tile_size - 1),
                     y \in (i * tile_size)..((i + 1) * tile_size - 1)}

\* C1: for every even P with 2P <= 256, defeat_any_fit(P) returns
\* 2 * C(P, P/2) proto-palettes of P/2 pairwise distinct colours below 2P,
\* and nb_colors = 2P.
C1_AnyFitContract ==
    (/\ strategy = "any_fit"
     /\ IsSmall(arg) /\ IsEven(arg) /\ 2 * arg.off <= 256
     /\ GenFinished)
    => LET P == arg.off
       IN  /\ Returned
           /\ Len(tile_colors) = 2 * Binomial(P, P \div 2)
           /\ \A i \in 1..Len(tile_colors) :
                 /\ Len(tile_colors[i]) = P \div 2
                 /\ NoDup(tile_colors[i])
                 /\ Range(tile_colors[i]) \subseteq 0..(2 * P - 1)
           /\ nb_colors = 2 * P

\* C2: for every even P with P + 2 <= 256, the smallest included,
\* defeat_best_fusion(P) completes and returns 2P + (P/2)(P-2)
\* proto-palettes of P-1 pairwise distinct colours, and nb_colors = P + 2.
C2_BestFusionContract ==
    (/\ strategy = "best_fusion"
     /\ IsSmall(arg) /\ IsEven(arg) /\ arg.off + 2 <= 256
     /\ GenFinished)
    => LET P == arg.off
       IN  /\ Returned
           /\ Len(tile_colors) = 2 * P + (P \div 2) * (P - 2)
           /\ \A i \in 1..Len(tile_colors) :
                 /\ Len(tile_colors[i]) = P - 1
                 /\ NoDup(tile_colors[i])
           /\ nb_colors = P + 2

\* C3: once gen_image has filled the buffer, the buffer is S wide and S*N
\* high and every pixel of band i holds a colour of the i-th proto-palette.
C3_PixelsFromOwnPalette ==
    Filled =>
        LET S == tile_size
            N == Len(tile_colors)
        IN  /\ img_dims = <<S, S * N>>
            /\ DOMAIN img = (0..(S - 1)) \X (0..(S * N - 1))
            /\ \A i \in 0..(N - 1) :
                  \A x \in 0..(S - 1), y \in (i * S)..((i + 1) * S - 1) :
                      img[<<x, y>>] \in Range(tile_colors[i + 1])

\* C3 witness: two different proto-palettes assembled into tiles of edge 2
C3_Witness ==
    /\ Filled
    /\ tile_size >= 2
    /\ Len(tile_colors) >= 2
    /\ Range(tile_colors[1]) \cap Range(tile_colors[2]) = {}

\* C4: the size main passes to the generator is palette_size rounded down
\* to the nearest even number.
C4_RoundedDownToEven ==
    pc \in {"defeat_any_fit", "defeat_best_fusion"}
    => /\ IsEven(arg)
       /\ arg.base = palette_size.base
       /\ arg.off <= palette_size.off
       /\ palette_size.off - arg.off <= 1

\* C5: in the output of defeat_any_fit the proto-palettes at positions 2k
\* and 2k+1 come from the same combination: 2i for each chosen position i
\* at 2k, 2i+1 for the same positions in the same order at 2k+1.
C5_EvensThenOdds ==
    (strategy = "any_fit" /\ Returned)
    => /\ Len(tile_colors) % 2 = 0
       /\ \A k \in 0..(Len(tile_colors) \div 2 - 1) :
             LET evens == tile_colors[2 * k + 1]
                 odds == tile_colors[2 * k + 2]
             IN  /\ Len(evens) = Len(odds)
                 /\ \A j \in 1..Len(evens) :
                       /\ evens[j] % 2 = 0
                       /\ evens[j] \div 2 \in 0..(arg.off - 1)
                       /\ odds[j] = evens[j] + 1

\* C5 witness: defeat_any_fit has returned several combinations
C5_Witness ==
    /\ strategy = "any_fit"
    /\ Returned
    /\ arg.off >= 4
    /\ Len(tile_colors) >= 12

\* C7: a run with an unknown strategy name, or whose palette size requires
\* more than 256 colours, never starts generating and ends non-zero.
TooManyColors(u) ==
    \/ strategy = "any_fit" /\ (u.base = 1 \/ 2 * u.off > 256)
    \/ strategy = "best_fusion" /\ (u.base = 1 \/ u.off + 2 > 256)

ConfigError ==
    \/ strategy \notin {"any_fit", "best_fusion"}
    \/ TooManyColors(AndNot2(palette_size))

C7_ConfigErrorsStopBeforeGeneration ==
    ConfigError
    => /\ pc \notin {"any_fit_combine", "best_fusion_combine", "gen_image",
                     "main_return"}
       /\ tile_colors = <<>>
       /\ ~Filled
       /\ (pc = "exited" => exit_code \in {"failure", "panic"})

\* C8: the colour-count limit is 256 inclusive: every even P that needs at
\* most 256 colours passes the colour check, and an input is rejected for
\* its colour count only when the count exceeds 256.
ColorCount == IF strategy = "any_fit" THEN 2 * arg.off ELSE arg.off + 2

C8_LimitIs256Inclusive ==
    /\ (/\ IsSmall(arg) /\ IsEven(arg) /\ ColorCount <= 256
        /\ pc \notin {"defeat_any_fit", "defeat_best_fusion"})
       => reason \notin {"colors", "not_even"}
    /\ reason = "colors" => ColorCount > 256

\* C9: the output of defeat_best_fusion is P/2 blocks of P + 2
\* proto-palettes: T0[2k], the intersection plus lock a = P, T0[2k+1], the
\* intersection plus lock b = P + 1, then the P-2 sub-combinations of size
\* P-3 of the intersection with a and b appended; the intersection has P-2
\* elements and the locks appear in no unmodified member of T0.
C9_BlockStructure ==
    (strategy = "best_fusion" /\ Returned)
    => LET P == arg.off
           a == P
           b == P + 1
           T0 == index(P, P - 1)
       IN  /\ Len(tile_colors) = (P \div 2) * (P + 2)
           /\ \A k \in 0..(P \div 2 - 1) :
                 LET at(j) == tile_colors[k * (P + 2) + j + 1]
                     I == Range(at(0)) \cap Range(at(2))
                 IN  /\ at(0) = T0[2 * k + 1]
                     /\ at(2) = T0[2 * k + 2]
                     /\ Range(at(0)) \subseteq 0..(P - 1)
                     /\ Range(at(2)) \subseteq 0..(P - 1)
                     /\ Cardinality(I) = P - 2
                     /\ Len(at(1)) = P - 1 /\ Range(at(1)) = I \cup {a}
                     /\ Len(at(3)) = P - 1 /\ Range(at(3)) = I \cup {b}
                     /\ \A j \in 4..(P + 1) :
                           /\ Len(at(j)) = P - 1
                           /\ {a, b} \subseteq Range(at(j))
                           /\ Range(at(j)) \ {a, b} \subseteq I
                           /\ Cardinality(Range(at(j)) \ {a, b}) = P - 3
                     /\ \A j1, j2 \in 4..(P + 1) :
                           j1 # j2 => Range(at(j1)) # Range(at(j2))

\* C9 witness: defeat_best_fusion has returned at least two blocks, each
\* with sub-combinations
C9_Witness ==
    /\ strategy = "best_fusion"
    /\ Returned
    /\ arg.off >= 4
    /\ Len(tile_colors) >= 12

\* C10: the colours present in band i of the buffer are exactly the colours
\* of the i-th proto-palette, for the output of either generator and every
\* tile size.
C10_TileHasExactlyItsColors ==
    Filled =>
        \A i \in 0..(Len(tile_colors) - 1) :
            BandColors(i) = Range(tile_colors[i + 1])

====
